---- MODULE Spec2Model ----
(***************************************************************************)
(* Simplex (toponetx/classes/simplex.py) and Cell                          *)
(* (toponetx/classes/cell.py) as state machines.                           *)
(*                                                                         *)
(* Python objects live in a heap: an object's identity is its position in  *)
(* the heap.  Nodes are integers 1..NumNodes, so any two nodes compare     *)
(* (sorted(face) never raises) and no node is itself a frozenset.          *)
(* Every call records what it was given and what it gave back in ret, one  *)
(* field for each kind of argument and of result; exc = "" when the call   *)
(* returned, the exception's class when it raised.                         *)
(***************************************************************************)
EXTENDS Integers, Sequences, FiniteSets, TLC

VARIABLES heap, roots, calls, cells, ret

vars == <<heap, roots, calls, cells, ret>>

\* ------------------------------------------------------------- bounds
NumNodes == 3
MaxLen == 3
MaxCellLen == 4
MaxRoots == 2
MaxCalls == 2
MaxCells == 3

Nodes == 1..NumNodes

\* ------------------------------------------------------------- helpers
Range(s) == {s[i] : i \in DOMAIN s}

SeqsUpTo(S, n) == UNION {[1..k -> S] : k \in 0..n}

Min(S) == CHOOSE x \in S : \A y \in S : x <= y

\* iteration over a frozenset of nodes
RECURSIVE SetToSeq(_)
SetToSeq(S) == IF S = {} THEN <<>> ELSE <<Min(S)>> \o SetToSeq(S \ {Min(S)})

\* sorted(face)
RECURSIVE Insert(_, _)
Insert(x, s) ==
    IF s = <<>> THEN <<x>>
    ELSE IF x <= Head(s) THEN <<x>> \o s
    ELSE <<Head(s)>> \o Insert(x, Tail(s))

RECURSIVE sorted(_)
sorted(s) == IF s = <<>> THEN <<>> ELSE Insert(Head(s), sorted(Tail(s)))

\* itertools.combinations(elements, r): the r-length subsequences of
\* elements, chosen by position, in lexicographic order of the positions
LexLess(I, J) == Min((I \ J) \cup (J \ I)) \in I

RECURSIVE OrderIndexSets(_)
OrderIndexSets(S) ==
    IF S = {} THEN <<>>
    ELSE LET first == CHOOSE I \in S : \A J \in S \ {I} : LexLess(I, J)
         IN  <<first>> \o OrderIndexSets(S \ {first})

Pick(elements, I) == LET ix == SetToSeq(I) IN [k \in 1..Len(ix) |-> elements[ix[k]]]

combinations(elements, r) ==
    LET idx == OrderIndexSets({I \in SUBSET (DOMAIN elements) : Cardinality(I) = r})
    IN  [k \in 1..Len(idx) |-> Pick(elements, idx[k])]

\* ------------------------------------------------------------- Simplex
\* Simplex defines neither __eq__ nor __hash__: both are object's, by identity
SimplexEq(h, a, b) == a = b

SimplexHash(h, a) == a

\* set.add on a set of Simplex objects
SetAdd(h, S, x) ==
    IF \E y \in S : SimplexHash(h, y) = SimplexHash(h, x) /\ SimplexEq(h, y, x)
    THEN S ELSE S \cup {x}

\* len(simplex)
SimplexLen(h, s) == Cardinality(h[s].nodes)

HasDuplicateNever(elements) == FALSE

HasDuplicate(elements) == Cardinality(Range(elements)) # Len(elements)

SizesWithoutTop(numnodes) == [k \in 1..(numnodes - 1) |-> numnodes - k]

\* range(numnodes, 0, -1)
Sizes(numnodes) == [k \in 1..numnodes |-> numnodes + 1 - k]

RECURSIVE Flatten(_)
Flatten(ss) == IF ss = <<>> THEN <<>> ELSE Head(ss) \o Flatten(Tail(ss))

\* the faces construct_simplex_tree visits, in order
FaceTuples(elements) ==
    LET sz == Sizes(Len(elements))
    IN  Flatten([k \in 1..Len(sz) |-> combinations(elements, sz[k])])

RECURSIVE SimplexInit(_, _, _)
RECURSIVE AddFaces(_, _, _)

\* the loop body of construct_simplex_tree over the remaining faces:
\* faceset.add(Simplex(elements=sorted(face), construct_tree=False))
AddFaces(h, faces, faceset) ==
    IF faces = <<>> THEN [exc |-> "", heap |-> h, faceset |-> faceset]
    ELSE LET new == SimplexInit(h, sorted(Head(faces)), FALSE)
         IN  IF new.exc # "" THEN [exc |-> new.exc, heap |-> h, faceset |-> {}]
             ELSE AddFaces(new.heap, Tail(faces), SetAdd(new.heap, faceset, new.self))

construct_simplex_tree(h, elements) == AddFaces(h, FaceTuples(elements), {})

\* Simplex.__init__ with name=None and no attr; elements is kept in the
\* object only as a record of the constructor's argument
SimplexInit(h, elements, construct_tree) ==
    LET self == Len(h) + 1
        obj  == [name |-> "", construct_tree |-> construct_tree,
                 nodes |-> Range(elements), _faces |-> {},
                 properties |-> {}, elements |-> elements]
    IN  IF HasDuplicate(elements)
        THEN [exc |-> "ValueError", heap |-> h, self |-> 0]
        ELSE IF construct_tree
        THEN LET tree == construct_simplex_tree(Append(h, obj), elements)
             IN  IF tree.exc # "" THEN [exc |-> tree.exc, heap |-> h, self |-> 0]
                 ELSE [exc |-> "",
                       heap |-> [tree.heap EXCEPT ![self]._faces = tree.faceset],
                       self |-> self]
        ELSE [exc |-> "", heap |-> Append(h, obj), self |-> self]

\* Simplex.faces
SimplexFaces(h, s) ==
    IF h[s].construct_tree
    THEN [exc |-> "", heap |-> h, faceset |-> h[s]._faces]
    ELSE construct_simplex_tree(h, SetToSeq(h[s].nodes))

BoundaryFilter(h, s, faces) == {i \in faces : SimplexLen(h, i) = SimplexLen(h, s) - 1}

\* Simplex.boundary
SimplexBoundary(h, s) ==
    IF h[s].construct_tree
    THEN [exc |-> "", heap |-> h, faceset |-> BoundaryFilter(h, s, h[s]._faces)]
    ELSE LET t == construct_simplex_tree(h, SetToSeq(h[s].nodes))
         IN  [exc |-> t.exc, heap |-> t.heap, faceset |-> BoundaryFilter(t.heap, s, t.faceset)]

\* candidates of a membership test: a node (hashable, not iterable), a tuple
\* or a frozenset of nodes (iterable, with a length), or an object that is
\* neither iterable nor hashable
Candidates ==
    [kind : {"node"}, node : Nodes, elements : {<<>>}, nodes : {{}}]
    \cup [kind : {"tuple"}, node : {0}, elements : SeqsUpTo(Nodes, MaxLen), nodes : {{}}]
    \cup [kind : {"frozenset"}, node : {0}, elements : {<<>>}, nodes : SUBSET Nodes]
    \cup [kind : {"other"}, node : {0}, elements : {<<>>}, nodes : {{}}]

\* frozenset({e}) in self.nodes: an integer node never equals a frozenset
FrozensetInNodes(fs, nodes) == \E n \in nodes : FALSE

\* Simplex.__contains__
SimplexContains(h, s, e) ==
    IF Cardinality(h[s].nodes) = 0 THEN FALSE
    ELSE IF e.kind = "tuple"
    THEN IF Len(e.elements) # 1 THEN FALSE ELSE Range(e.elements) \subseteq h[s].nodes
    ELSE IF e.kind = "frozenset"
    THEN IF Cardinality(e.nodes) # 1 THEN FALSE ELSE e.nodes \subseteq h[s].nodes
    ELSE IF e.kind = "node"
    THEN FrozensetInNodes({e.node}, h[s].nodes)
    ELSE FALSE

\* ------------------------------------------------------------- Atom
\* Atom.__init__: the element tuple, the name and the property map
AtomInit(elements, name, attr) ==
    [elements |-> elements, name |-> name, _properties |-> attr]

\* Atom.__len__
AtomLen(c) == Len(c.elements)

\* ------------------------------------------------------------- Cell
\* zip_longest's fill value
None == 0

\* itertools.zip_longest(a, b)
zip_longest(a, b) ==
    LET n == IF Len(a) >= Len(b) THEN Len(a) ELSE Len(b)
    IN  [i \in 1..n |-> <<IF i <= Len(a) THEN a[i] ELSE None,
                          IF i <= Len(b) THEN b[i] ELSE None>>]

\* list(zip_longest(elements, elements[1:] + [elements[0]])), elements not empty
BoundaryOf(elements) == zip_longest(elements, Tail(elements) \o <<elements[1]>>)

\* the regular branch's scan: some e[0] is already a key of _adjdict
RECURSIVE RepeatedSource(_, _)
RepeatedSource(boundary, adjdict) ==
    IF boundary = <<>> THEN FALSE
    ELSE IF Head(boundary)[1] \in adjdict THEN TRUE
    ELSE RepeatedSource(Tail(boundary), adjdict \cup {Head(boundary)[1]})

\* the other branch's scan: some e[0] == e[1]
RECURSIVE SelfLoop(_)
SelfLoop(boundary) ==
    IF boundary = <<>> THEN FALSE
    ELSE IF Head(boundary)[1] = Head(boundary)[2] THEN TRUE
    ELSE SelfLoop(Tail(boundary))

NoCell == [elements |-> <<>>, name |-> "", _properties |-> {},
           _regular |-> FALSE, _boundary |-> <<>>]

\* Cell.__init__
CellInit(elements, name, regular, attr) ==
    LET atom == AtomInit(elements, name, attr)
    IN  IF Len(elements) = 0 THEN [exc |-> "IndexError", self |-> NoCell]
        ELSE LET self == [elements |-> atom.elements, name |-> atom.name,
                          _properties |-> atom._properties, _regular |-> regular,
                          _boundary |-> BoundaryOf(elements)]
             IN  IF Len(elements) <= 1 THEN [exc |-> "ValueError", self |-> NoCell]
                 ELSE IF regular /\ RepeatedSource(self._boundary, {})
                 THEN [exc |-> "ValueError", self |-> NoCell]
                 ELSE IF ~regular /\ SelfLoop(self._boundary)
                 THEN [exc |-> "ValueError", self |-> NoCell]
                 ELSE [exc |-> "", self |-> self]

\* Cell.is_valid_cell on a list or a tuple of nodes: elements[0] of an empty
\* sequence raises, and so does tuple + list
is_valid_cell(kind, elements, regular) ==
    IF Len(elements) = 0 THEN [exc |-> "IndexError", val |-> FALSE]
    ELSE IF kind = "tuple" THEN [exc |-> "TypeError", val |-> FALSE]
    ELSE LET _boundary == BoundaryOf(elements)
         IN  IF Len(elements) <= 1 THEN [exc |-> "", val |-> FALSE]
             ELSE IF regular
             THEN [exc |-> "", val |-> ~RepeatedSource(_boundary, {})]
             ELSE [exc |-> "", val |-> ~SelfLoop(_boundary)]

InBoundary(c, edge) == \E i \in DOMAIN c._boundary : c._boundary[i] = edge

\* edge[::-1], elements[::-1]
Reversed(s) == [i \in 1..Len(s) |-> s[Len(s) + 1 - i]]

CellSignIgnoresOrientation(c, edge) ==
    IF edge.kind # "tuple" THEN [exc |-> "TypeError", val |-> 0]
    ELSE IF Len(edge.elements) = 2
    THEN IF InBoundary(c, edge.elements) \/ InBoundary(c, Reversed(edge.elements))
         THEN [exc |-> "", val |-> 1]
         ELSE [exc |-> "KeyError", val |-> 0]
    ELSE [exc |-> "ValueError", val |-> 0]

\* Cell.sign
CellSign(c, edge) ==
    IF edge.kind # "tuple" THEN [exc |-> "TypeError", val |-> 0]
    ELSE IF Len(edge.elements) = 2
    THEN IF InBoundary(c, edge.elements) THEN [exc |-> "", val |-> 1]
         ELSE IF InBoundary(c, Reversed(edge.elements)) THEN [exc |-> "", val |-> -1]
         ELSE [exc |-> "KeyError", val |-> 0]
    ELSE [exc |-> "ValueError", val |-> 0]

CellReverseKeepsOrder(c) == CellInit(c.elements, c.name, c._regular, c._properties)

CellReverseDropsName(c) == CellInit(Reversed(c.elements), "", c._regular, c._properties)

\* Cell.reverse
CellReverse(c) == CellInit(Reversed(c.elements), c.name, c._regular, c._properties)

\* collections.Counter(seq)
Counter(seq) ==
    [x \in Range(seq) |-> Cardinality({i \in DOMAIN seq : seq[i] = x})]

\* deque.rotate(): one step to the right
Rotate(deq) ==
    IF deq = <<>> THEN deq ELSE <<deq[Len(deq)]>> \o SubSeq(deq, 1, Len(deq) - 1)

\* for _ in range(size): deq2.rotate(); if deq1 == deq2: return True
RECURSIVE RotationLoop(_, _, _)
RotationLoop(deq1, deq2, left) ==
    IF left = 0 THEN FALSE
    ELSE IF deq1 = Rotate(deq2) THEN TRUE
    ELSE RotationLoop(deq1, Rotate(deq2), left - 1)

AreHomotopicNoRotation(cell1, cell) ==
    IF cell.kind \notin {"tuple", "Cell"} THEN [exc |-> "TypeError", val |-> FALSE]
    ELSE LET seq == IF cell.kind = "tuple" THEN cell.elements ELSE cell.cell.elements
         IN  [exc |-> "", val |-> cell1.elements = seq]

\* Cell._are_homotopic(cell1, cell) with cell1 a Cell; cell is a tuple or a
\* list (kind "tuple": the code treats both alike), a Cell, or anything else
_are_homotopic(cell1, cell) ==
    IF cell.kind \notin {"tuple", "Cell"} THEN [exc |-> "TypeError", val |-> FALSE]
    ELSE LET seq == IF cell.kind = "tuple" THEN cell.elements ELSE cell.cell.elements
             lencell == IF cell.kind = "tuple" THEN Len(cell.elements) ELSE AtomLen(cell.cell)
         IN  IF AtomLen(cell1) # lencell THEN [exc |-> "", val |-> FALSE]
             ELSE IF Counter(seq) # Counter(cell1.elements) THEN [exc |-> "", val |-> FALSE]
             ELSE [exc |-> "", val |-> RotationLoop(cell1.elements, seq, Len(seq))]

\* Cell.is_homotopic_to
is_homotopic_to(c, cell) ==
    LET same == _are_homotopic(c, cell)
    IN  IF same.exc # "" \/ same.val THEN same
        ELSE LET rev == CellReverse(c)
             IN  IF rev.exc # "" THEN [exc |-> rev.exc, val |-> FALSE]
                 ELSE _are_homotopic(rev.self, cell)

\* ------------------------------------------------------------- actions
\* a call: op is the operation, self the object it is called on (its place
\* in the heap or in cells, 0 for a constructor or a static method); kind,
\* elements, node, nodes, flag, name, attr and cell are the arguments given,
\* whichever the operation takes; exc is the exception raised, if any; new,
\* bool, sign and faceset are the result, whichever the operation returns
NoCall ==
    [op |-> "init", self |-> 0, kind |-> "", elements |-> <<>>, node |-> 0,
     nodes |-> {}, flag |-> FALSE, name |-> "", attr |-> {}, cell |-> NoCell,
     exc |-> "", new |-> 0, bool |-> FALSE, sign |-> 0, faceset |-> {}]

Init ==
    /\ heap = <<>>
    /\ roots = <<>>
    /\ calls = 0
    /\ cells = <<>>
    /\ ret = NoCall

\* __contains__, sign, is_homotopic_to and is_valid_cell read and change
\* nothing: a call of one of them after another leads to no state of the
\* objects that a call made from the state before does not, so they are
\* taken from the states the other calls leave
Queries == {"contains", "sign", "is_homotopic_to", "is_valid_cell"}

AtRest == ret.op \notin Queries

\* nothing has been called yet
Fresh == ret.op = "init"

\* s = Simplex(elements, construct_tree=construct_tree)
NewSimplex(elements, construct_tree) ==
    LET r == SimplexInit(heap, elements, construct_tree)
    IN  /\ ret' = [NoCall EXCEPT !.op = "Simplex", !.elements = elements,
                                 !.flag = construct_tree, !.exc = r.exc, !.new = r.self]
        /\ heap' = r.heap
        /\ roots' = IF r.exc = "" THEN Append(roots, r.self) ELSE roots
        /\ UNCHANGED <<calls, cells>>

\* s.faces
Faces(i) ==
    LET r == SimplexFaces(heap, roots[i])
    IN  /\ calls < MaxCalls
        /\ calls' = calls + 1
        /\ ret' = [NoCall EXCEPT !.op = "faces", !.self = roots[i],
                                 !.exc = r.exc, !.faceset = r.faceset]
        /\ heap' = r.heap
        /\ UNCHANGED <<roots, cells>>

\* s.boundary
Boundary(i) ==
    LET r == SimplexBoundary(heap, roots[i])
    IN  /\ calls < MaxCalls
        /\ calls' = calls + 1
        /\ ret' = [NoCall EXCEPT !.op = "boundary", !.self = roots[i],
                                 !.exc = r.exc, !.faceset = r.faceset]
        /\ heap' = r.heap
        /\ UNCHANGED <<roots, cells>>

\* e in s
Contains(i, e) ==
    /\ ret' = [NoCall EXCEPT !.op = "contains", !.self = roots[i], !.kind = e.kind,
                             !.node = e.node, !.elements = e.elements, !.nodes = e.nodes,
                             !.bool = SimplexContains(heap, roots[i], e)]
    /\ UNCHANGED <<heap, roots, calls, cells>>

Inputs == SeqsUpTo(Nodes, MaxLen)

\* one simplex and the calls on it
NextSimplex ==
    \/ /\ Fresh
       /\ \E elements \in Inputs, construct_tree \in BOOLEAN :
              NewSimplex(elements, construct_tree)
    \/ \E i \in DOMAIN roots : Faces(i)
    \/ \E i \in DOMAIN roots : Boundary(i)
    \/ /\ AtRest
       /\ \E i \in DOMAIN roots, e \in Candidates : Contains(i, e)

SpecSimplex == Init /\ [][NextSimplex]_vars

\* several simplices side by side
NextPair ==
    /\ Len(roots) < MaxRoots
    /\ \E elements \in Inputs, construct_tree \in BOOLEAN :
           NewSimplex(elements, construct_tree)

SpecPair == Init /\ [][NextPair]_vars

\* c = Cell(elements, name, regular, **attr)
NewCell(elements, name, regular, attr) ==
    LET r == CellInit(elements, name, regular, attr)
    IN  /\ ret' = [NoCall EXCEPT !.op = "Cell", !.elements = elements, !.name = name,
                                 !.flag = regular, !.attr = attr, !.exc = r.exc,
                                 !.new = IF r.exc = "" THEN Len(cells) + 1 ELSE 0]
        /\ cells' = IF r.exc = "" THEN Append(cells, r.self) ELSE cells
        /\ UNCHANGED <<heap, roots, calls>>

\* cells[i].reverse(); ret.cell keeps the cell as it was before the call
ReverseCell(i) ==
    LET r == CellReverse(cells[i])
    IN  /\ Len(cells) < MaxCells
        /\ ret' = [NoCall EXCEPT !.op = "reverse", !.self = i, !.cell = cells[i],
                                 !.exc = r.exc,
                                 !.new = IF r.exc = "" THEN Len(cells) + 1 ELSE 0]
        /\ cells' = IF r.exc = "" THEN Append(cells, r.self) ELSE cells
        /\ UNCHANGED <<heap, roots, calls>>

\* cells[i].sign(edge)
Sign(i, edge) ==
    LET r == CellSign(cells[i], edge)
    IN  /\ ret' = [NoCall EXCEPT !.op = "sign", !.self = i, !.kind = edge.kind,
                                 !.elements = edge.elements, !.exc = r.exc,
                                 !.sign = r.val]
        /\ UNCHANGED <<heap, roots, calls, cells>>

\* Cell.is_valid_cell(elements, regular), a static method
IsValidCell(kind, elements, regular) ==
    LET r == is_valid_cell(kind, elements, regular)
    IN  /\ ret' = [NoCall EXCEPT !.op = "is_valid_cell", !.kind = kind,
                                 !.elements = elements, !.flag = regular,
                                 !.exc = r.exc, !.bool = r.val]
        /\ UNCHANGED <<heap, roots, calls, cells>>

\* cells[i].is_homotopic_to(cell)
IsHomotopicTo(i, cell) ==
    LET r == is_homotopic_to(cells[i], cell)
    IN  /\ ret' = [NoCall EXCEPT !.op = "is_homotopic_to", !.self = i,
                                 !.kind = cell.kind, !.elements = cell.elements,
                                 !.cell = cell.cell, !.exc = r.exc, !.bool = r.val]
        /\ UNCHANGED <<heap, roots, calls, cells>>

CellInputs == SeqsUpTo(Nodes, MaxCellLen)

Names == {"", "A"}

Attrs == {{}, {<<"weight", 1>>}}

\* what sign is asked about: an integer (not iterable), or a tuple of fewer,
\* exactly or more than two nodes
Edges == [kind : {"int"}, elements : {<<>>}]
         \cup [kind : {"tuple"}, elements : SeqsUpTo(Nodes, 3)]

\* the cells there are: every Cell a constructor call returns
Cells ==
    {CellInit(x[1], "", x[2], {}).self :
        x \in {y \in CellInputs \X BOOLEAN : CellInit(y[1], "", y[2], {}).exc = ""}}

\* what is_homotopic_to is asked about: a tuple or list of nodes, a Cell, or
\* something else (a set)
Others == [kind : {"tuple"}, elements : CellInputs, cell : {NoCell}]
          \cup [kind : {"Cell"}, elements : {<<>>}, cell : Cells]
          \cup [kind : {"set"}, elements : {<<>>}, cell : {NoCell}]

\* one cell, its reversals and the orientation of edges
NextCell ==
    \/ /\ Fresh
       /\ \E elements \in CellInputs, name \in Names, regular \in BOOLEAN, attr \in Attrs :
              NewCell(elements, name, regular, attr)
    \/ /\ AtRest
       /\ \E i \in DOMAIN cells : ReverseCell(i)
    \/ /\ AtRest
       /\ \E i \in DOMAIN cells, edge \in Edges : Sign(i, edge)
    \/ /\ Fresh
       /\ \E kind \in {"list", "tuple"}, elements \in CellInputs, regular \in BOOLEAN :
              IsValidCell(kind, elements, regular)

SpecCell == Init /\ [][NextCell]_vars

\* one cell compared with every other
NextHomotopy ==
    \/ /\ Fresh
       /\ \E elements \in CellInputs, regular \in BOOLEAN :
              NewCell(elements, "", regular, {})
    \/ /\ AtRest
       /\ \E i \in DOMAIN cells, cell \in Others : IsHomotopicTo(i, cell)

SpecHomotopy == Init /\ [][NextHomotopy]_vars

\* ------------------------------------------------------------- claims
IsPermutation(a, b) == Len(a) = Len(b) /\ Counter(a) = Counter(b)

\* C1: two simplices built from a duplicate-free collection and from a
\* permutation of it (here one that moves a node) are equal, hash alike, and
\* a set given both holds one
C1_Claim ==
    \A i, j \in DOMAIN roots :
        LET a == roots[i]
            b == roots[j]
        IN  (/\ IsPermutation(heap[a].elements, heap[b].elements)
             /\ heap[a].elements # heap[b].elements)
            => /\ SimplexEq(heap, a, b)
               /\ SimplexHash(heap, a) = SimplexHash(heap, b)
               /\ Cardinality(SetAdd(heap, SetAdd(heap, {}, a), b)) = 1

\* C2: x in S never raises; it is true for a node of S.nodes and for a
\* non-empty set of nodes that is a subset of S.nodes, false for a node not in
\* S.nodes, for a collection that is not a subset, and whenever S has no nodes
C2_Claim ==
    ret.op = "contains" =>
        LET nodes == heap[ret.self].nodes
        IN  /\ ret.exc = ""
            /\ nodes = {} => ret.bool = FALSE
            /\ (nodes # {} /\ ret.kind = "node") => (ret.bool <=> ret.node \in nodes)
            /\ (nodes # {} /\ ret.kind = "frozenset" /\ ret.nodes # {})
                   => (ret.bool <=> ret.nodes \subseteq nodes)
            /\ (ret.kind = "tuple" /\ ~(Range(ret.elements) \subseteq nodes))
                   => ret.bool = FALSE

\* F holds exactly one simplex for each node set of Ts
OnePer(F, Ts) ==
    /\ Cardinality(F) = Cardinality(Ts)
    /\ {heap[f].nodes : f \in F} = Ts

Facets(nodes) == {T \in SUBSET nodes : T # {} /\ Cardinality(T) = Cardinality(nodes) - 1}

CellOk(e, regular) ==
    /\ Len(e) >= 2
    /\ regular => \A i, j \in DOMAIN e : i # j => e[i] # e[j]
    /\ ~regular => \A i \in DOMAIN e : e[i] # e[(i % Len(e)) + 1]

C4_Claim ==
    ret.op = "Cell" =>
        LET ok == CellOk(ret.elements, ret.flag)
        IN  /\ ret.exc = "" <=> ok
            /\ ~ok => (ret.exc = "ValueError" /\ cells = <<>>)

\* C5: is_valid_cell(e, r) returns a boolean for every sequence e, of any
\* length, without raising, and returns true exactly when Cell(e, regular=r)
\* can be constructed
C5_Claim ==
    ret.op = "is_valid_cell" =>
        /\ ret.exc = ""
        /\ ret.bool <=> (CellInit(ret.elements, "", ret.flag, {}).exc = "")

\* s turned k places
RotBy(s, k) == [i \in 1..Len(s) |-> s[((i - 1 + k) % Len(s)) + 1]]

IsRotation(s, t) == Len(s) = Len(t) /\ \E k \in 0..(Len(s) - 1) : s = RotBy(t, k)

\* the elements of what is_homotopic_to was asked about
SeqOfOther == IF ret.kind = "tuple" THEN ret.elements ELSE ret.cell.elements

\* C6: c.is_homotopic_to(d), d a cell or a node sequence, is true exactly when
\* d's elements are as many as c's and are a cyclic rotation of c's elements
\* or of c's elements reversed, repeated nodes or not
C6_Homotopic ==
    (ret.op = "is_homotopic_to" /\ ret.kind \in {"tuple", "Cell"}) =>
        LET c == cells[ret.self]
        IN  /\ ret.exc = ""
            /\ ret.bool <=> \/ IsRotation(SeqOfOther, c.elements)
                            \/ IsRotation(SeqOfOther, Reversed(c.elements))

C6_Witness ==
    /\ ret.op = "is_homotopic_to"
    /\ ret.kind = "Cell"
    /\ ret.bool = TRUE
    /\ ~cells[ret.self]._regular
    /\ ~IsRotation(SeqOfOther, cells[ret.self].elements)

TypeOrArity == {"TypeError", "ValueError"}

IsPair == ret.kind = "tuple" /\ Len(ret.elements) = 2

\* C7 as stated: sign((a, b)) is +1 if (a, b) is in the boundary, -1 if (b, a)
\* is in the boundary, KeyError if neither is; TypeError or ValueError for
\* what is not a 2-element iterable
C7_Claim ==
    ret.op = "sign" =>
        LET c    == cells[ret.self]
            edge == ret.elements
        IN  IF IsPair
            THEN /\ InBoundary(c, edge) => (ret.exc = "" /\ ret.sign = 1)
                 /\ InBoundary(c, Reversed(edge)) => (ret.exc = "" /\ ret.sign = -1)
                 /\ (~InBoundary(c, edge) /\ ~InBoundary(c, Reversed(edge)))
                        => ret.exc = "KeyError"
            ELSE ret.exc \in TypeOrArity

\* C7 amended: sign((a, b)) is +1 if (a, b) is in the boundary, -1 if (b, a)
\* is in the boundary and (a, b) is not, KeyError if neither is; TypeError or
\* ValueError for what is not a 2-element iterable
C7_Sign ==
    ret.op = "sign" =>
        LET c    == cells[ret.self]
            edge == ret.elements
        IN  IF IsPair
            THEN /\ InBoundary(c, edge) => (ret.exc = "" /\ ret.sign = 1)
                 /\ (InBoundary(c, Reversed(edge)) /\ ~InBoundary(c, edge))
                        => (ret.exc = "" /\ ret.sign = -1)
                 /\ (~InBoundary(c, edge) /\ ~InBoundary(c, Reversed(edge)))
                        => ret.exc = "KeyError"
            ELSE ret.exc \in TypeOrArity

C7_Witness ==
    /\ ret.op = "sign"
    /\ ret.exc = ""
    /\ ret.sign = -1
    /\ InBoundary(cells[ret.self], Reversed(ret.elements))

\* C8: c.reverse() raises nothing for any cell c and returns a new cell: c's
\* elements reversed, c's name, regularity flag and properties; c keeps its
\* elements and boundary; reversing the reversed cell gives c's elements
\* (cells[2] is cells[1].reverse(): one cell is constructed, the others are
\* reversals)
C8_Reverse ==
    ret.op = "reverse" =>
        LET i      == ret.self
            before == ret.cell
        IN  /\ ret.exc = ""
            /\ ret.new \in DOMAIN cells
            /\ ret.new # i
            /\ cells[ret.new].elements = Reversed(before.elements)
            /\ cells[ret.new].name = before.name
            /\ cells[ret.new]._regular = before._regular
            /\ cells[ret.new]._properties = before._properties
            /\ cells[i].elements = before.elements
            /\ cells[i]._boundary = before._boundary
            /\ i = 2 => cells[ret.new].elements = cells[1].elements

C8_Witness ==
    /\ ret.op = "reverse"
    /\ ret.self = 2
    /\ ret.exc = ""
    /\ ~cells[1]._regular
    /\ cells[1].name = "A"
    /\ cells[1]._properties # {}
    /\ Cardinality(Range(cells[1].elements)) < Len(cells[1].elements)

BothWays(c, edge) == InBoundary(c, edge) /\ InBoundary(c, Reversed(edge))

AsEdge(pair) == [kind |-> "tuple", elements |-> pair]

Flipped(c, edge, val) ==
    /\ CellSign(c, AsEdge(Reversed(edge))) = [exc |-> "", val |-> -val]
    /\ CellReverse(c).exc = ""
    /\ CellSign(CellReverse(c).self, AsEdge(edge)) = [exc |-> "", val |-> -val]

\* C10 as stated: whenever c.sign((a, b)) returns a value, c.sign((b, a)) and
\* c.reverse().sign((a, b)) both return its negation, for every cell
C10_Claim ==
    (ret.op = "sign" /\ ret.exc = "") =>
        Flipped(cells[ret.self], ret.elements, ret.sign)

\* C10 amended: whenever c.sign((a, b)) returns a value and (a, b) and (b, a)
\* are not both in c's boundary, c.sign((b, a)) and c.reverse().sign((a, b))
\* both return its negation
C10_Antisymmetry ==
    (ret.op = "sign" /\ ret.exc = "" /\ ~BothWays(cells[ret.self], ret.elements)) =>
        Flipped(cells[ret.self], ret.elements, ret.sign)

C10_Witness ==
    /\ ret.op = "sign"
    /\ ret.exc = ""
    /\ ret.sign = 1
    /\ ret.self = 2
    /\ Len(cells[2].elements) >= 3
    /\ ~BothWays(cells[2], ret.elements)

====
